---- MODULE Spec2Model ----
(***************************************************************************)
(* streams-rs: MultiWriter (src/src/multiwriters.rs) and RoundRobinCopier  *)
(* (src/src/round_robin_copiers.rs) over abstract sinks and sources.       *)
(*                                                                         *)
(* A sink is its accumulated content; every underlying call on a sink or   *)
(* a source (write, flush, read) is one step whose outcome the environment *)
(* chooses: a write accepts 0..len bytes or fails, a flush succeeds or     *)
(* fails, a read delivers 1..len bytes of what is left, 0 at exhaustion,   *)
(* or fails.  A step runs the component's code from one underlying call    *)
(* up to the next one, or to the return of the operation.                  *)
(***************************************************************************)
EXTENDS Naturals, Sequences, FiniteSets

VARIABLES
    kind,      \* which component the program built: "MultiWriter" or "RoundRobinCopier"
    writers,   \* field `writers`: the sinks in order, each as its accumulated content
    current,   \* RoundRobinCopier.current (0-based)
    pc,        \* position: "idle", "write_all", "flush", "read", "panicked"
    op,        \* operation in progress (or the last one that returned)
    buf,       \* argument `buf` of the MultiWriter::write / write_all in progress
    w,         \* 1-based position of the sink being written or flushed
    rem,       \* write_all's remaining slice of buf for sink w
    src,       \* what the source has not delivered yet
    total,     \* io::copy's running byte count
    result,    \* what the last operation returned
    pre,       \* history: `writers` when the operation was called
    arg,       \* history: the buffer or source content the operation was called with
    ncalls,    \* history: number of operations called so far
    expect,    \* history: per sink, the sources of the copy calls i with i mod N = sink
    allOk,     \* history: no operation has failed so far
    intr,      \* history: Interrupted outcomes seen by the operation in progress
    flushed,   \* history: per sink, flush invocations made by the operation
    wcalls,    \* history: underlying write calls made on sink w by the write_all in progress
    failed,    \* history: 1-based position of the sink whose call failed, 0 if none
    cause,     \* history: the error kind the failing underlying call reported, "" if none
    budget,    \* bytes the caller may still supply
    prev       \* history: the call before this one, if it was a write that failed

vars == <<kind, writers, current, pc, op, buf, w, rem, src, total, result,
          pre, arg, ncalls, expect, allOk, intr, flushed, wcalls, failed, cause, budget, prev>>

\* ---- bounds ----
MaxSinks == 2
MaxBytes == 2
MaxCalls == 3
MaxIntr  == 1

Byte == {0, 1}

N == Len(writers)

RECURSIVE SeqsOfLen(_)
SeqsOfLen(k) ==
    IF k = 0 THEN {<<>>}
    ELSE {Append(s, b) : s \in SeqsOfLen(k - 1), b \in Byte}

\* every byte sequence of at most k bytes
SeqsUpTo(k) == UNION {SeqsOfLen(i) : i \in 0..k}

Take(s, k) == SubSeq(s, 1, k)
Drop(s, k) == SubSeq(s, k + 1, Len(s))

\* io::ErrorKind values an underlying call may report
ErrKinds == {"Interrupted", "BrokenPipe"}

\* mutant: the error is wrapped into a new error of the component's own
Err_Wrapped(e) == [tag |-> "err", n |-> 0, err |-> "Other"]

Ok(n)   == [tag |-> "ok",  n |-> n, err |-> ""]
Err(e)  == [tag |-> "err", n |-> 0, err |-> e]
NoResult == [tag |-> "none", n |-> 0, err |-> ""]


Zeros == [i \in 1..N |-> 0]

NoPrev == [failed |-> 0, arg |-> <<>>, pre |-> <<>>]

Init ==
    /\ kind \in {"MultiWriter", "RoundRobinCopier"}
    /\ writers \in {[i \in 1..n |-> <<>>] : n \in 0..MaxSinks}
    /\ current = 0
    /\ pc = "idle"
    /\ op = "none"
    /\ buf = <<>>
    /\ w = 0
    /\ rem = <<>>
    /\ src = <<>>
    /\ total = 0
    /\ result = NoResult
    /\ pre = writers
    /\ arg = <<>>
    /\ ncalls = 0
    /\ expect = writers
    /\ allOk = TRUE
    /\ intr = 0
    /\ flushed = [i \in 1..Len(writers) |-> 0]
    /\ wcalls = 0
    /\ failed = 0
    /\ cause = ""
    /\ budget = MaxBytes
    /\ prev = NoPrev

\* ---- control flow between underlying calls ----

\* the operation goes on to its next underlying call
Goto(p, w2, r2, t2, wc) ==
    /\ pc' = p
    /\ w' = w2
    /\ rem' = r2
    /\ total' = t2
    /\ wcalls' = wc
    /\ UNCHANGED <<result, allOk>>

\* the operation returns r to the caller
Return(r, w2, r2, wc) ==
    /\ pc' = "idle"
    /\ result' = r
    /\ allOk' = (allOk /\ r.tag = "ok")
    /\ w' = w2
    /\ rem' = r2
    /\ wcalls' = wc
    /\ UNCHANGED total

\* mutant: MultiWriter::write adds up what every writer took
WriteDone_SumOverSinks(o, b, t, w2, wc) ==
    CASE o = "write"     -> Return(Ok(Len(b) * N), w2, <<>>, wc)
      [] o = "write_all" -> Return(Ok(0), w2, <<>>, wc)
      [] OTHER           -> Goto("read", w2, <<>>, t + Len(b), wc)

\* mutant: io::copy keeps the size of the last chunk in place of the sum
WriteDone_NoAccumulate(o, b, t, w2, wc) ==
    CASE o = "write"     -> Return(Ok(Len(b)), w2, <<>>, wc)
      [] o = "write_all" -> Return(Ok(0), w2, <<>>, wc)
      [] OTHER           -> Goto("read", w2, <<>>, Len(b), wc)

\* the writer's write_all(b) has returned Ok: MultiWriter::write returns
\* Ok(buf.len()), MultiWriter::write_all drops it, io::copy adds the bytes it
\* read to its count and reads again
WriteDone(o, b, t, w2, wc) ==
    CASE o = "write"     -> Return(Ok(Len(b)), w2, <<>>, wc)
      [] o = "write_all" -> Return(Ok(0), w2, <<>>, wc)
      [] OTHER           -> Goto("read", w2, <<>>, t + Len(b), wc)

\* sink i has taken all of b: MultiWriter::write's loop moves to the next
\* writer; RoundRobinCopier's io::copy wrote to its one sink only
NextWriter(o, b, t, i, wc) ==
    IF kind = "MultiWriter" /\ i < N
    THEN Goto("write_all", i + 1, b, t, 0)
    ELSE WriteDone(o, b, t, i, wc)

\* mutant: MultiWriter::write starts at writers[0] without looking at the
\* number of writers
EnterWrite_FirstWriter(o, b, t, idx) ==
    IF kind = "MultiWriter"
    THEN IF b = <<>>
         THEN WriteDone(o, b, t, 0, 0)
         ELSE Goto("write_all", 1, b, t, 0)
    ELSE Goto("write_all", idx, b, t, 0)

\* mutant: RoundRobinCopier::copy indexes the writers with the cursor it has
\* just advanced
EnterWrite_AfterAdvance(o, b, t, idx) ==
    IF kind = "MultiWriter"
    THEN IF N = 0 \/ b = <<>>
         THEN WriteDone(o, b, t, 0, 0)
         ELSE Goto("write_all", 1, b, t, 0)
    ELSE Goto("write_all", current + 1, b, t, 0)

\* mutant: MultiWriter remembers the writer that failed and the next write
\* resumes there
EnterWrite_Resume(o, b, t, idx) ==
    IF kind = "MultiWriter"
    THEN IF N = 0 \/ b = <<>>
         THEN WriteDone(o, b, t, 0, 0)
         ELSE Goto("write_all", IF failed > 0 THEN failed ELSE 1, b, t, 0)
    ELSE Goto("write_all", idx, b, t, 0)

\* entry of write_all(b) on the operation's writer: the MultiWriter (its loop
\* over the sinks; write_all of an empty buffer makes no underlying call) or
\* the sink idx the RoundRobinCopier selected
EnterWrite(o, b, t, idx) ==
    IF kind = "MultiWriter"
    THEN IF N = 0 \/ b = <<>>
         THEN WriteDone(o, b, t, 0, 0)
         ELSE Goto("write_all", 1, b, t, 0)
    ELSE Goto("write_all", idx, b, t, 0)

\* what every call resets
BeginCall(o, a) ==
    /\ pc = "idle"
    /\ ncalls < MaxCalls
    /\ Len(a) <= budget
    /\ op' = o
    /\ arg' = a
    /\ pre' = writers
    /\ ncalls' = ncalls + 1
    /\ budget' = budget - Len(a)
    /\ intr' = 0
    /\ flushed' = Zeros
    /\ failed' = 0
    /\ cause' = ""
    /\ prev' = IF op \in {"write", "write_all"} /\ result.tag = "err"
               THEN [failed |-> failed, arg |-> arg, pre |-> pre]
               ELSE NoPrev
    /\ UNCHANGED <<kind, writers>>

\* ---- MultiWriter ----

BeginWrite(o, b) ==
    /\ kind = "MultiWriter"
    /\ BeginCall(o, b)
    /\ buf' = b
    /\ src' = <<>>
    /\ EnterWrite(o, b, 0, 0)
    /\ UNCHANGED <<current, expect>>

\* caller: multi_writer.write(b)
CallWrite(b) == BeginWrite("write", b)

\* caller: multi_writer.write_all(b)
CallWriteAll(b) == BeginWrite("write_all", b)

\* mutant: a single `write` in place of `write_all`; whatever the sink accepted
\* is taken for the whole buffer
SinkWriteOk_SingleWrite(k) ==
    /\ pc = "write_all"
    /\ k \in 1..Len(rem)
    /\ writers' = [writers EXCEPT ![w] = @ \o Take(rem, k)]
    /\ NextWriter(op, buf, total, w, wcalls + 1)
    /\ UNCHANGED <<kind, current, op, buf, src, pre, arg, ncalls, expect,
                   intr, flushed, failed, cause, budget, prev>>

\* mutant: what one writer accepted is handed to the next writer at once,
\* before the first has taken the rest
SinkWriteOk_Lockstep(k) ==
    /\ pc = "write_all"
    /\ k \in 1..Len(rem)
    /\ writers' = [i \in 1..N |->
                     IF i = w \/ (kind = "MultiWriter" /\ i = w + 1)
                     THEN writers[i] \o Take(rem, k)
                     ELSE writers[i]]
    /\ IF k < Len(rem)
       THEN Goto("write_all", w, Drop(rem, k), total, wcalls + 1)
       ELSE NextWriter(op, buf, total, w, wcalls + 1)
    /\ UNCHANGED <<kind, current, op, buf, src, pre, arg, ncalls, expect,
                   intr, flushed, failed, cause, budget, prev>>

\* one underlying write call on sink w accepts k >= 1 bytes
SinkWriteOk(k) ==
    /\ pc = "write_all"
    /\ k \in 1..Len(rem)
    /\ writers' = [writers EXCEPT ![w] = @ \o Take(rem, k)]
    /\ IF k < Len(rem)
       THEN Goto("write_all", w, Drop(rem, k), total, wcalls + 1)
       ELSE NextWriter(op, buf, total, w, wcalls + 1)
    /\ UNCHANGED <<kind, current, op, buf, src, pre, arg, ncalls, expect,
                   intr, flushed, failed, cause, budget, prev>>

\* mutant: a write that accepted nothing is taken for a completed writer and
\* the loop moves on
SinkWriteZero_SkipSink ==
    /\ pc = "write_all"
    /\ NextWriter(op, buf, total, w, wcalls + 1)
    /\ UNCHANGED <<kind, writers, current, op, buf, src, pre, arg, ncalls,
                   expect, intr, flushed, failed, cause, budget, prev>>

\* mutant: a write that accepted nothing is simply tried again
SinkWriteZero_Retry ==
    /\ pc = "write_all"
    /\ wcalls' = wcalls + 1
    /\ UNCHANGED <<kind, writers, current, pc, op, buf, w, rem, src, total,
                   result, pre, arg, ncalls, expect, allOk, intr, flushed,
                   failed, cause, budget, prev>>

\* an underlying write call accepts nothing: write_all gives up with WriteZero
SinkWriteZero ==
    /\ pc = "write_all"
    /\ failed' = w
    /\ cause' = ""
    /\ Return(Err("WriteZero"), w, rem, wcalls + 1)
    /\ UNCHANGED <<kind, writers, current, op, buf, src, pre, arg, ncalls,
                   expect, intr, flushed, budget, prev>>

\* an underlying write call fails with Interrupted: write_all calls again
SinkWriteInterrupted ==
    /\ pc = "write_all"
    /\ intr < MaxIntr
    /\ intr' = intr + 1
    /\ wcalls' = wcalls + 1
    /\ UNCHANGED <<kind, writers, current, pc, op, buf, w, rem, src, total,
                   result, pre, arg, ncalls, expect, allOk, flushed, failed, cause,
                   budget, prev>>

\* mutant: the loop does not stop at the failing writer; the next one is
\* still written before the error is returned
SinkWriteErr_WritesNext(e) ==
    /\ pc = "write_all"
    /\ e # "Interrupted"
    /\ failed' = w
    /\ cause' = e
    /\ writers' = IF kind = "MultiWriter" /\ w < N
                  THEN [writers EXCEPT ![w + 1] = @ \o buf]
                  ELSE writers
    /\ Return(Err(e), w, rem, wcalls + 1)
    /\ UNCHANGED <<kind, current, op, buf, src, pre, arg, ncalls,
                   expect, intr, flushed, budget, prev>>

\* mutant: after the failed write the rest of the source is still read
SinkWriteErr_Drain(e) ==
    /\ pc = "write_all"
    /\ e # "Interrupted"
    /\ failed' = w
    /\ cause' = e
    /\ src' = <<>>
    /\ Return(Err(e), w, rem, wcalls + 1)
    /\ UNCHANGED <<kind, writers, current, op, buf, pre, arg, ncalls,
                   expect, intr, flushed, budget, prev>>

\* an underlying write call fails with another error: `?` returns it
SinkWriteErr(e) ==
    /\ pc = "write_all"
    /\ e # "Interrupted"
    /\ failed' = w
    /\ cause' = e
    /\ Return(Err(e), w, rem, wcalls + 1)
    /\ UNCHANGED <<kind, writers, current, op, buf, src, pre, arg, ncalls,
                   expect, intr, flushed, budget, prev>>

\* caller: multi_writer.flush()
CallFlush ==
    /\ kind = "MultiWriter"
    /\ BeginCall("flush", <<>>)
    /\ buf' = <<>>
    /\ src' = <<>>
    /\ IF N = 0
       THEN Return(Ok(0), 0, <<>>, 0)
       ELSE Goto("flush", 1, <<>>, total, 0)
    /\ UNCHANGED <<current, expect>>

\* the flush of sink w succeeds: the loop moves on, or flush returns Ok(())
SinkFlushOk ==
    /\ pc = "flush"
    /\ flushed' = [flushed EXCEPT ![w] = @ + 1]
    /\ IF w < N
       THEN Goto("flush", w + 1, <<>>, total, 0)
       ELSE Return(Ok(0), w, <<>>, 0)
    /\ UNCHANGED <<kind, writers, current, op, buf, src, pre, arg, ncalls,
                   expect, intr, failed, cause, budget, prev>>

\* mutant: flush goes on over the remaining writers and returns the first
\* error afterwards
SinkFlushErr_FlushRest(e) ==
    /\ pc = "flush"
    /\ flushed' = [i \in 1..N |-> IF i >= w THEN flushed[i] + 1 ELSE flushed[i]]
    /\ failed' = w
    /\ cause' = e
    /\ Return(Err(e), w, <<>>, 0)
    /\ UNCHANGED <<kind, writers, current, op, buf, src, pre, arg, ncalls,
                   expect, intr, budget, prev>>

\* the flush of sink w fails: `?` returns the error, whatever its kind
SinkFlushErr(e) ==
    /\ pc = "flush"
    /\ flushed' = [flushed EXCEPT ![w] = @ + 1]
    /\ failed' = w
    /\ cause' = e
    /\ Return(Err(e), w, <<>>, 0)
    /\ UNCHANGED <<kind, writers, current, op, buf, src, pre, arg, ncalls,
                   expect, intr, budget, prev>>

\* caller: copy_into_many(reader, writers), the reader holding s
CallCopyIntoMany(s) ==
    /\ kind = "MultiWriter"
    /\ BeginCall("copy_into_many", s)
    /\ buf' = <<>>
    /\ src' = s
    /\ Goto("read", 0, <<>>, 0, 0)
    /\ UNCHANGED <<current, expect>>

\* ---- RoundRobinCopier ----

\* mutant: the cursor is never advanced
NextCurrent_Stuck == current

\* mutant: the cursor is advanced only when the last copy succeeded
NextCurrent_OnSuccess ==
    IF result.tag = "err" THEN current ELSE (current + 1) % N

\* mutant: the increment without the wrap-around
NextCurrent_NoWrap == current + 1

\* `(self.current + 1) % self.writers.len()`
NextCurrent == (current + 1) % N

\* mutant: an empty pool is answered with Ok(0) in place of the panic
CallCopy_EmptyPoolOk(s) ==
    /\ kind = "RoundRobinCopier"
    /\ BeginCall("copy", s)
    /\ buf' = <<>>
    /\ src' = s
    /\ IF N = 0
       THEN /\ Return(Ok(0), 0, <<>>, 0)
            /\ UNCHANGED <<current, expect>>
       ELSE /\ current' = NextCurrent
            /\ expect' = [expect EXCEPT ![(ncalls % N) + 1] = @ \o s]
            /\ Goto("read", current + 1, <<>>, 0, 0)

\* caller: copier.copy(reader), the reader holding s; with no writers the
\* remainder panics before `current` is assigned and before io::copy runs
CallCopy(s) ==
    /\ kind = "RoundRobinCopier"
    /\ BeginCall("copy", s)
    /\ buf' = <<>>
    /\ src' = s
    /\ IF N = 0
       THEN /\ pc' = "panicked"
            /\ result' = [tag |-> "panic", n |-> 0, err |-> ""]
            /\ allOk' = FALSE
            /\ UNCHANGED <<current, expect, w, rem, total, wcalls>>
       ELSE /\ current' = NextCurrent
            /\ expect' = [expect EXCEPT ![(ncalls % N) + 1] = @ \o s]
            /\ Goto("read", current + 1, <<>>, 0, 0)

\* ---- io::copy's loop ----

\* mutant: io::copy writes its whole buffer, not the k bytes just read
SourceRead_Unsliced(k) ==
    /\ pc = "read"
    /\ k \in 1..Len(src)
    /\ src' = Drop(src, k)
    /\ buf' = src
    /\ EnterWrite(op, src, total, w)
    /\ UNCHANGED <<kind, writers, current, op, pre, arg, ncalls, expect,
                   intr, flushed, failed, cause, budget, prev>>

\* the source delivers k >= 1 of its bytes: io::copy write_all's them
SourceRead(k) ==
    /\ pc = "read"
    /\ k \in 1..Len(src)
    /\ src' = Drop(src, k)
    /\ buf' = Take(src, k)
    /\ EnterWrite(op, Take(src, k), total, w)
    /\ UNCHANGED <<kind, writers, current, op, pre, arg, ncalls, expect,
                   intr, flushed, failed, cause, budget, prev>>

\* mutant: a read of 0 bytes is taken for a failure, as read_exact does
SourceEof_UnexpectedEof ==
    /\ pc = "read"
    /\ src = <<>>
    /\ Return(Err("UnexpectedEof"), w, <<>>, wcalls)
    /\ UNCHANGED <<kind, writers, current, op, buf, src, pre, arg, ncalls,
                   expect, intr, flushed, failed, cause, budget, prev>>

\* the source is exhausted and reports 0 bytes: io::copy returns its count
SourceEof ==
    /\ pc = "read"
    /\ src = <<>>
    /\ Return(Ok(total), w, <<>>, wcalls)
    /\ UNCHANGED <<kind, writers, current, op, buf, src, pre, arg, ncalls,
                   expect, intr, flushed, failed, cause, budget, prev>>

\* a read fails with Interrupted: io::copy reads again
SourceReadInterrupted ==
    /\ pc = "read"
    /\ intr < MaxIntr
    /\ intr' = intr + 1
    /\ UNCHANGED <<kind, writers, current, pc, op, buf, w, rem, src, total,
                   result, pre, arg, ncalls, expect, allOk, flushed, wcalls,
                   failed, cause, budget, prev>>

\* a read fails with another error: io::copy returns it
SourceReadErr(e) ==
    /\ pc = "read"
    /\ e # "Interrupted"
    /\ cause' = e
    /\ Return(Err(e), w, <<>>, wcalls)
    /\ UNCHANGED <<kind, writers, current, op, buf, src, pre, arg, ncalls,
                   expect, intr, flushed, failed, budget, prev>>

Next ==
    \/ \E b \in SeqsUpTo(MaxBytes) : CallWrite(b)
    \/ \E b \in SeqsUpTo(MaxBytes) : CallWriteAll(b)
    \/ CallFlush
    \/ \E s \in SeqsUpTo(MaxBytes) : CallCopyIntoMany(s)
    \/ \E s \in SeqsUpTo(MaxBytes) : CallCopy(s)
    \/ \E k \in 1..MaxBytes : SinkWriteOk(k)
    \/ SinkWriteZero
    \/ SinkWriteInterrupted
    \/ \E e \in ErrKinds : SinkWriteErr(e)
    \/ SinkFlushOk
    \/ \E e \in ErrKinds : SinkFlushErr(e)
    \/ \E k \in 1..MaxBytes : SourceRead(k)
    \/ SourceEof
    \/ SourceReadInterrupted
    \/ \E e \in ErrKinds : SourceReadErr(e)

Spec == Init /\ [][Next]_vars

TypeOK ==
    /\ kind \in {"MultiWriter", "RoundRobinCopier"}
    /\ N \in 0..MaxSinks
    /\ pc \in {"idle", "write_all", "flush", "read", "panicked"}
    /\ pc = "write_all" => (w \in 1..N /\ rem # <<>>)
    /\ pc = "flush" => w \in 1..N
    /\ budget \in 0..MaxBytes
    /\ ncalls \in 0..MaxCalls
    /\ intr \in 0..MaxIntr

\* ---- claims ----

WriteReturned == pc = "idle" /\ op \in {"write", "write_all"}

\* C1: whenever MultiWriter.write(B) or write_all(B) returns success, every
\* sink holds what it held at the call followed by exactly B, in B's order,
\* however the sinks split B over their underlying write calls.
C1_FanOut ==
    (WriteReturned /\ result.tag = "ok")
        => \A i \in 1..N : writers[i] = pre[i] \o arg

\* C1 witness: a successful write of two bytes to two sinks, the last sink
\* having taken them in two underlying calls.
C1_Witness ==
    /\ WriteReturned /\ result.tag = "ok"
    /\ N = 2 /\ Len(arg) = 2 /\ wcalls = 2 /\ intr = 0

\* C2 as stated: when write returns the error of sink k, the sinks before k
\* hold B in full and the sinks k..N-1 were not written at all by the call.
C2_Original ==
    (WriteReturned /\ result.tag = "err")
        => /\ failed \in 1..N
           /\ \A i \in 1..N :
                 writers[i] = IF i < failed THEN pre[i] \o arg ELSE pre[i]

\* C2 amended: when write returns the error of sink k, the sinks before k
\* hold B in full, the sinks after k were not written at all by the call,
\* and sink k itself has received a proper prefix of B (possibly empty).
C2_FailFast ==
    (WriteReturned /\ result.tag = "err")
        => /\ failed \in 1..N
           /\ \A i \in 1..N :
                 /\ i < failed => writers[i] = pre[i] \o arg
                 /\ i > failed => writers[i] = pre[i]
           /\ \E j \in 0..(Len(arg) - 1) :
                 writers[failed] = pre[failed] \o Take(arg, j)

\* C2 witness: a write of two bytes over two sinks fails at the first sink
\* after that sink accepted one byte.
C2_Witness ==
    /\ WriteReturned /\ result.tag = "err"
    /\ N = 2 /\ failed = 1 /\ Len(arg) = 2
    /\ writers[1] = pre[1] \o Take(arg, 1)
    /\ writers[2] = pre[2]

RoundRobin == kind = "RoundRobinCopier" /\ N >= 1

\* C3: for N >= 1 sinks, after any number of RoundRobinCopier.copy calls that
\* all succeeded, sink j holds the concatenation, in call order, of the
\* sources of the calls i with i mod N = j.
C3_RoundRobinCycling ==
    (RoundRobin /\ pc = "idle" /\ allOk) => writers = expect

\* C3 witness: three successful copies over two sinks; the first sink holds
\* the one-byte sources of calls 0 and 2.
C3_Witness ==
    /\ RoundRobin /\ pc = "idle" /\ allOk
    /\ N = 2 /\ ncalls = 3 /\ Len(writers[1]) = 2 /\ Len(arg) = 1

\* C4: the i-th copy call (0-based) targets sink i mod N whatever the
\* outcomes of the calls before it, and the cursor has advanced by one
\* modulo N with every call made, failed or not.
C4_CursorAdvancesAlways ==
    RoundRobin
        => /\ current = ncalls % N
           /\ ncalls > 0 => w = ((ncalls - 1) % N) + 1

\* C4 witness: the second copy call over two sinks follows a failed first
\* call and is writing to the second sink.
C4_Witness ==
    /\ RoundRobin /\ N = 2 /\ ncalls = 2
    /\ ~allOk /\ pc = "write_all" /\ w = 2

\* C5: over N >= 1 sinks the cursor is a valid index in every reachable
\* state: 0 <= current < N.
C5_CursorInRange ==
    RoundRobin => current \in 0..(N - 1)

\* C5 witness: two calls over two sinks, one of them failed, and the cursor
\* has wrapped around to 0.
C5_Witness ==
    /\ RoundRobin /\ N = 2 /\ ncalls = 2 /\ ~allOk /\ current = 0

\* C6: MultiWriter.flush flushes the sinks in order, once each: while it runs
\* exactly the sinks before the current one have been flushed; when it
\* returns success all N have been; when it returns an error, exactly the
\* sinks up to and including the failing one have been, and the error is the
\* one that sink reported.
C6_FlushPropagation ==
    op = "flush"
        => /\ pc = "flush" =>
                 \A i \in 1..N : flushed[i] = IF i < w THEN 1 ELSE 0
           /\ (pc = "idle" /\ result.tag = "ok") =>
                 /\ failed = 0
                 /\ \A i \in 1..N : flushed[i] = 1
           /\ (pc = "idle" /\ result.tag = "err") =>
                 /\ failed \in 1..N
                 /\ \A i \in 1..N : flushed[i] = IF i <= failed THEN 1 ELSE 0
                 /\ result.err = cause
           /\ pc \in {"flush", "idle"}
           /\ writers = pre

\* C6 witness: a flush over two sinks fails at the first one; the second was
\* not flushed.
C6_Witness ==
    /\ op = "flush" /\ pc = "idle" /\ result.tag = "err"
    /\ N = 2 /\ failed = 1 /\ flushed = <<1, 0>>

\* C7: whenever MultiWriter.write(B) returns success the count it reports is
\* len(B), however many underlying write calls the sinks needed.
C7_WriteReportsLen ==
    (pc = "idle" /\ op = "write" /\ result.tag = "ok") => result.n = Len(arg)

\* C7 witness: a successful write of two bytes over two sinks whose last
\* sink needed three underlying write calls (one of them interrupted).
C7_Witness ==
    /\ pc = "idle" /\ op = "write" /\ result.tag = "ok"
    /\ N = 2 /\ Len(arg) = 2 /\ wcalls = 3

\* C8: a MultiWriter over zero sinks is a no-op sink: write(B) returns
\* Ok(len(B)), write_all and flush return Ok, and no underlying write or
\* flush is ever made.
C8_ZeroSinkNoOp ==
    (kind = "MultiWriter" /\ N = 0)
        => /\ pc \notin {"write_all", "flush"}
           /\ wcalls = 0
           /\ writers = <<>>
           /\ (pc = "idle" /\ op = "write") => result = Ok(Len(arg))
           /\ (pc = "idle" /\ op \in {"write_all", "flush"}) => result = Ok(0)

\* C8 witness: write of a two-byte buffer through a MultiWriter over no sink
\* has returned.
C8_Witness ==
    /\ kind = "MultiWriter" /\ N = 0
    /\ pc = "idle" /\ op = "write" /\ Len(arg) = 2 /\ result.tag = "ok"

CopyReturned == pc = "idle" /\ op \in {"copy_into_many", "copy"}

\* C9: a successful copy (copy_into_many or RoundRobinCopier.copy) has read
\* the source to exhaustion and returns the number of bytes the source
\* produced, however the source split them over its reads and whatever the
\* number of sinks.
C9_ByteCountFidelity ==
    (CopyReturned /\ result.tag = "ok")
        => /\ src = <<>>
           /\ result.n = Len(arg)

\* C9 witness: copy_into_many over two sinks of a two-byte source that
\* delivered its bytes in two reads has returned Ok.
C9_Witness ==
    /\ CopyReturned /\ result.tag = "ok" /\ op = "copy_into_many"
    /\ N = 2 /\ Len(arg) = 2 /\ Len(buf) = 1

\* C10: when copy_into_many succeeds every sink holds what it held at the
\* call followed by the whole source content, in source order.
C10_CopyIntoManyFanOut ==
    (pc = "idle" /\ op = "copy_into_many" /\ result.tag = "ok")
        => \A i \in 1..N : writers[i] = pre[i] \o arg

\* C10 witness: copy_into_many over two sinks of a source holding two
\* different bytes delivered in two reads has returned Ok.
C10_Witness ==
    /\ pc = "idle" /\ op = "copy_into_many" /\ result.tag = "ok"
    /\ N = 2 /\ Len(arg) = 2 /\ arg[1] # arg[2] /\ Len(buf) = 1

\* C11: copying an empty source through a MultiWriter over any number of
\* sinks or through a RoundRobinCopier over N >= 1 sinks never writes: no
\* sink changes, and when the read of 0 bytes comes (no underlying call
\* reported an error) the copy returns Ok(0).
C11_EmptySource ==
    (op \in {"copy_into_many", "copy"} /\ arg = <<>>
       /\ (kind = "RoundRobinCopier" => N >= 1))
        => /\ pc \in {"read", "idle"}
           /\ writers = pre
           /\ (pc = "idle" /\ cause = "") => result = Ok(0)

\* C11 witness: the second copy of a RoundRobinCopier over two sinks, of an
\* empty source, has returned Ok while a sink holds earlier content.
C11_Witness ==
    /\ op = "copy" /\ arg = <<>> /\ N = 2 /\ ncalls = 2
    /\ pc = "idle" /\ result.tag = "ok" /\ Len(writers[1]) = 2

\* C12: a RoundRobinCopier.copy call writes only to the sink the cursor
\* selected when the call started (the cursor has advanced by one since):
\* every other sink holds what it held at the call, whether the call
\* succeeds or fails.
C12_OnlySelectedSink ==
    (RoundRobin /\ op = "copy")
        => /\ w = ((current + N - 1) % N) + 1
           /\ \A i \in 1..N : i # w => writers[i] = pre[i]

\* C12 witness: the second copy over two sinks failed after writing one
\* byte to the second sink; the first sink holds what the first call left.
C12_Witness ==
    /\ RoundRobin /\ op = "copy" /\ N = 2 /\ ncalls = 2
    /\ pc = "idle" /\ result.tag = "err"
    /\ w = 2 /\ Len(writers[2]) = 1 /\ Len(writers[1]) = 1

\* C13: a RoundRobinCopier over zero sinks fails fast: its first copy call
\* panics before any byte is read from the source, and no copy call on it
\* ever returns a byte count.
C13_ZeroSinkCopierFails ==
    (kind = "RoundRobinCopier" /\ N = 0)
        => /\ result.tag # "ok"
           /\ pc \in {"idle", "panicked"}
           /\ ncalls > 0 => (pc = "panicked" /\ src = arg /\ total = 0)

\* C13 witness: copy of a two-byte source on a copier over no sink has
\* panicked.
C13_Witness ==
    /\ kind = "RoundRobinCopier" /\ N = 0
    /\ pc = "panicked" /\ Len(arg) = 2 /\ src = arg

\* what sink i held when the write of the current buffer began: its content
\* at the call, followed by the chunks io::copy wrote before this one
ChunkBase(i) == pre[i] \o Take(arg, Len(arg) - Len(src) - Len(buf))

\* C14: while MultiWriter.write(B) is writing, the sinks before the current
\* one hold B in full, the current one holds the part of B it has accepted
\* so far, and the sinks after it hold no byte of B: sink i+1 receives
\* nothing of B until sink i has accepted all of it.
C14_SinksInSequence ==
    (kind = "MultiWriter" /\ pc = "write_all")
        => /\ \A i \in 1..N :
                 writers[i] = ChunkBase(i) \o
                     (IF i < w THEN buf
                      ELSE IF i = w THEN Take(buf, Len(buf) - Len(rem))
                      ELSE <<>>)
           /\ \A i \in 1..(N - 1) :
                 writers[i + 1] # ChunkBase(i + 1)
                     => writers[i] = ChunkBase(i) \o buf

\* C14 witness: the first of two sinks has accepted one byte of a two-byte
\* buffer in one underlying call; the second sink has received nothing.
C14_Witness ==
    /\ kind = "MultiWriter" /\ pc = "write_all" /\ op = "write"
    /\ N = 2 /\ w = 1 /\ Len(buf) = 2 /\ Len(rem) = 1 /\ wcalls = 1
    /\ writers[2] = pre[2]

\* C15: when RoundRobinCopier.copy returns an error, the selected sink holds
\* what it held at the call followed by a prefix of the source's content:
\* exactly the bytes read from the source less the part of the last chunk
\* the sink did not accept; nothing more was read or written, and the error
\* is returned.
C15_AbandonedAtError ==
    (RoundRobin /\ op = "copy" /\ pc = "idle" /\ result.tag = "err")
        => /\ Len(src) + Len(rem) <= Len(arg)
           /\ writers[w] = pre[w] \o Take(arg, Len(arg) - Len(src) - Len(rem))
           /\ src = Drop(arg, Len(arg) - Len(src))
           /\ result.err \in {cause, "WriteZero"}

\* C15 witness: a copy of a two-byte source failed on a write after its sink
\* had accepted the first byte and the second had been read.
C15_Witness ==
    /\ RoundRobin /\ op = "copy" /\ pc = "idle" /\ result.tag = "err"
    /\ failed = w /\ Len(arg) = 2 /\ src = <<>> /\ Len(rem) = 1
    /\ writers[w] = pre[w] \o Take(arg, 1)

Returned == pc = "idle" /\ op # "none"

\* C16 as stated: an operation returns an error exactly when an underlying
\* call reported one, the error returned is that call's error, and no
\* underlying call is made again after one reported an error.
C16_Original ==
    /\ (Returned /\ result.tag = "err") => (cause # "" /\ result.err = cause)
    /\ (Returned /\ result.tag = "ok") => cause = ""
    /\ intr = 0

\* C16 amended: an error of a kind other than Interrupted reported by an
\* underlying write or read, and any error reported by a flush, is returned
\* unmodified and ends the operation; an Interrupted write or read is not
\* returned but retried; and the one error the components' write path makes
\* up is WriteZero, returned when a sink accepts zero bytes of a non-empty
\* remainder.  A successful operation has seen no error other than retried
\* Interrupted ones.
C16_ErrorPassThrough ==
    /\ (Returned /\ result.tag = "err") =>
          \/ /\ cause # ""
             /\ result.err = cause
             /\ op # "flush" => cause # "Interrupted"
          \/ /\ cause = ""
             /\ result.err = "WriteZero"
             /\ op # "flush"
             /\ failed \in 1..N
             /\ rem # <<>>
    /\ (Returned /\ result.tag = "ok") => cause = ""
    /\ pc \in {"write_all", "flush", "read"} => cause = ""
    /\ op = "flush" => intr = 0

\* C16 witness: a copy returned BrokenPipe, reported by an underlying call
\* made after an Interrupted one had been retried.
C16_Witness ==
    /\ Returned /\ op = "copy" /\ result = Err("BrokenPipe")
    /\ cause = "BrokenPipe" /\ intr = 1

IsPrefix(p, s) == Len(p) <= Len(s) /\ Take(s, Len(p)) = p

\* C17: during and after one copy_into_many over sinks that were empty at
\* the call, failed or not: every sink's content is a prefix of the content
\* of each sink before it, the first sink's content is a prefix of the
\* source's content, and two sinks differ by no more than the chunk being
\* written.
C17_PrefixChain ==
    (op = "copy_into_many" /\ \A i \in 1..N : pre[i] = <<>>)
        => /\ \A i \in 1..N : \A j \in (i + 1)..N :
                 /\ IsPrefix(writers[j], writers[i])
                 /\ Len(writers[i]) - Len(writers[j]) <= Len(buf)
           /\ N >= 1 => IsPrefix(writers[1], arg)

\* C17 witness: copy_into_many of a two-byte source read in two chunks
\* failed at the second of two empty sinks on the second chunk: the first
\* sink holds both bytes, the second only the first.
C17_Witness ==
    /\ op = "copy_into_many" /\ pc = "idle" /\ result.tag = "err"
    /\ N = 2 /\ pre = <<<<>>, <<>>>> /\ failed = 2
    /\ Len(buf) = 1 /\ Len(writers[1]) = 2 /\ Len(writers[2]) = 1

\* write(B) failed at sink prev.failed and the repeated write(B) has
\* returned success
RepeatOk ==
    /\ WriteReturned /\ result.tag = "ok"
    /\ prev.failed > 0 /\ prev.arg = arg

SinksDiffer == \E i, j \in 1..N : writers[i] # writers[j]

C19_Original ==
    op \in {"write", "write_all"} => wcalls <= Len(buf)

\* one underlying write call of the write_all in progress that did not
\* report Interrupted
WriteCallStep == pc = "write_all" /\ intr' = intr

\* C19 amended: when every underlying write call accepts at least one byte,
\* accepts zero bytes, or fails with an error other than Interrupted, each
\* such call either ends the operation, moves to the next sink, or shortens
\* the remainder; a call that accepts zero bytes of a non-empty remainder
\* makes the operation return an error; so a sink sees at most len(B)
\* underlying write calls, plus one for every Interrupted failure, which is
\* retried.
C19_WriteTerminates ==
    /\ [](/\ wcalls <= Len(buf) + intr
          /\ pc = "write_all" => wcalls <= (Len(buf) - Len(rem)) + intr)
    /\ [][WriteCallStep =>
            /\ \/ pc' # "write_all"
               \/ w' > w
               \/ w' = w /\ Len(rem') < Len(rem)
            /\ writers' = writers => (pc' = "idle" /\ result'.tag = "err")]_vars

\* C19 witness: write of a two-byte buffer returned WriteZero after its sink
\* accepted one byte and then none: two underlying calls, none interrupted.
C19_Witness ==
    /\ WriteReturned /\ result = Err("WriteZero")
    /\ Len(arg) = 2 /\ Len(rem) = 1 /\ wcalls = 2 /\ intr = 0

====
